---- MODULE Spec2Model ----
(***************************************************************************)
(* GoLogger (src/logger.go): a leveled, prefix-tagged logger.              *)
(*                                                                         *)
(* Representation of Go values                                             *)
(*   - A Go `int` (64 bits; Level is an int) is the record [hi, lo] that   *)
(*     stands for hi * 2^32 + lo, with lo in the int32 range.  The         *)
(*     conversion int32(x) keeps the low 32 bits, which is x.lo, and the   *)
(*     order of two ints is the lexicographic order of (hi, lo).           *)
(*   - An int32 (logger.level) is a plain integer.                         *)
(*   - A string or []byte is a sequence of one-character strings; "ESC"    *)
(*     stands for the byte 033.                                            *)
(*   - A time.Time is the number of seconds since midnight of day 0.       *)
(*   - A *logger is an index into heap; an io.Writer is a sink name.       *)
(***************************************************************************)
EXTENDS Integers, Sequences, FiniteSets, TLC

VARIABLES
    heap,        \* the logger structs allocated so far, by address
    hnd,         \* the ILogger values the caller holds: hnd[k] is an address
    cloneOf,     \* cloneOf[k]: the handle hnd[k] was cloned from (0: none)
    sink,        \* sink[w]: the Write calls writer w has received, in order
    exited,      \* os.Exit has been called
    exitStatus,  \* the status handed to os.Exit
    clock,       \* the wall clock, read by time.Now()
    ncalls,      \* the calls made so far
    last,        \* the last call made: what was asked and what it did
    pc,          \* per thread: the statement it is at
    loc          \* per thread: the locals of the call in progress

vars == <<heap, hnd, cloneOf, sink, exited, exitStatus, clock, ncalls, last, pc, loc>>

---------------------------------------------------------------------------
(* Bounds of the model *)

\* Calls one behaviour of the sequential specification makes.
MaxCalls == 2
\* How far beyond [LevelQuiet, LevelTrace] the level inputs reach.
OutOfRange == 1

---------------------------------------------------------------------------
(* Level and its constants *)

GoInt(hi, lo) == [hi |-> hi, lo |-> lo]

\* i < j and i <= j on Go ints
Lt(i, j) == i.hi < j.hi \/ (i.hi = j.hi /\ i.lo < j.lo)

Le(i, j) == i = j \/ Lt(i, j)

\* The conversion int32(level): the low 32 bits.
int32(i) == i.lo

\* The conversion Level(x) of an int32: sign extension.
Level(x) == GoInt(0, x)

LevelQuiet == Level(0)

LevelFatal == Level(1)

LevelError == Level(2)

LevelWarn == Level(3)

LevelInfo == Level(4)

LevelDebug == Level(5)

LevelTrace == Level(6)

FlagColorMode == 1

ESC == "ESC"

levelPrefixes ==
    (LevelFatal :> <<"F">>) @@ (LevelError :> <<"E">>) @@ (LevelWarn :> <<"W">>) @@
    (LevelInfo :> <<"I">>) @@ (LevelDebug :> <<"D">>) @@ (LevelTrace :> <<"T">>)

levelColors ==
    (LevelFatal :> <<ESC, "[", "3", "1", ";", "1", "m">>) @@
    (LevelError :> <<ESC, "[", "3", "1", "m">>) @@
    (LevelWarn :> <<ESC, "[", "3", "3", ";", "1", "m">>) @@
    (LevelInfo :> <<ESC, "[", "3", "2", "m">>) @@
    (LevelDebug :> <<ESC, "[", "3", "4", ";", "1", "m">>) @@
    (LevelTrace :> <<ESC, "[", "3", "6", "m">>)

colorReset == <<ESC, "[", "0", "m">>

---------------------------------------------------------------------------
(* Formatting helpers *)

\* byte('0' + d)
digit(d) == <<"0", "1", "2", "3", "4", "5", "6", "7", "8", "9">>[d + 1]

\* The bytes b[bp:] that iToA assembles for i >= 0.
RECURSIVE iToABytes(_, _)
iToABytes(i, wid) ==
    IF i >= 10 \/ wid > 1
    THEN iToABytes(i \div 10, wid - 1) \o <<digit(i - (i \div 10) * 10)>>
    ELSE <<digit(i)>>

iToA(buf, i, wid) == buf \o iToABytes(i, wid)

\* t.Clock(): hour, minute and second of the day.
Clock(t) == <<(t \div 3600) % 24, (t \div 60) % 60, t % 60>>

\* An operand of type any: a string or an int.
Str(s) == [k |-> "string", s |-> s, n |-> 0]

Num(n) == [k |-> "int", s |-> <<>>, n |-> n]

\* The decimal digits of n >= 0.
RECURSIVE decimal(_)
decimal(n) == IF n >= 10 THEN decimal(n \div 10) \o <<digit(n % 10)>> ELSE <<digit(n)>>

\* fmt's %v of an operand.
printArg(a) == IF a.k = "string" THEN a.s ELSE IF a.n < 0 THEN <<"-">> \o decimal(0 - a.n) ELSE decimal(a.n)

\* fmt.Sprint: operands back to back, a space between two operands when
\* neither is a string.
RECURSIVE doPrint(_, _)
doPrint(a, argNum) ==
    IF argNum > Len(a) THEN <<>>
    ELSE (IF argNum > 1 /\ a[argNum].k # "string" /\ a[argNum - 1].k # "string"
          THEN <<" ">> ELSE <<>>)
         \o printArg(a[argNum]) \o doPrint(a, argNum + 1)

Sprint(a) == doPrint(a, 1)

\* fmt.Sprintln: a space between operands, always a newline at the end.
RECURSIVE doPrintln(_, _)
doPrintln(a, argNum) ==
    IF argNum > Len(a) THEN <<"\n">>
    ELSE (IF argNum > 1 THEN <<" ">> ELSE <<>>)
         \o printArg(a[argNum]) \o doPrintln(a, argNum + 1)

Sprintln(a) == doPrintln(a, 1)

\* fmt's rendering of one operand under verb c (s, d and v are modelled).
printVerb(a, c) ==
    IF c = "v" \/ (c = "s" /\ a.k = "string") \/ (c = "d" /\ a.k = "int")
    THEN printArg(a)
    ELSE <<"%", "!", c, "(">> \o
         (IF a.k = "string" THEN <<"s", "t", "r", "i", "n", "g">> ELSE <<"i", "n", "t">>)
         \o <<"=">> \o printArg(a) \o <<")">>

\* The operands left over when the format is used up: %!(EXTRA type=value, ...)
RECURSIVE extraArgs(_, _)
extraArgs(a, argNum) ==
    IF argNum > Len(a) THEN <<")">>
    ELSE (IF a[argNum].k = "string" THEN <<"s", "t", "r", "i", "n", "g">> ELSE <<"i", "n", "t">>)
         \o <<"=">> \o printArg(a[argNum])
         \o (IF argNum < Len(a) THEN <<",", " ">> ELSE <<>>)
         \o extraArgs(a, argNum + 1)

\* fmt.Sprintf: the format from position i on, with operands argNum.. left.
RECURSIVE doPrintf(_, _, _, _)
doPrintf(format, i, a, argNum) ==
    IF i > Len(format)
    THEN IF argNum <= Len(a)
         THEN <<"%", "!", "(", "E", "X", "T", "R", "A", " ">> \o extraArgs(a, argNum)
         ELSE <<>>
    ELSE IF format[i] # "%"
    THEN <<format[i]>> \o doPrintf(format, i + 1, a, argNum)
    ELSE IF i = Len(format)
    THEN <<"%", "!", "(", "N", "O", "V", "E", "R", "B", ")">>
    ELSE IF format[i + 1] = "%"
    THEN <<"%">> \o doPrintf(format, i + 2, a, argNum)
    ELSE IF argNum > Len(a)
    THEN <<"%", "!", format[i + 1], "(", "M", "I", "S", "S", "I", "N", "G", ")">>
         \o doPrintf(format, i + 2, a, argNum)
    ELSE printVerb(a[argNum], format[i + 1]) \o doPrintf(format, i + 2, a, argNum + 1)

Sprintf(format, a) == doPrintf(format, 1, a, 1)

---------------------------------------------------------------------------
(* The logger struct and its methods.  A method takes the heap hp and the  *)
(* address a of its receiver and yields the heap it leaves, with what else *)
(* it did.                                                                 *)

Stderr == "stderr"

\* &l of a freshly built struct: a new address.
alloc(hp, l) == [heap |-> Append(hp, l), addr |-> Len(hp) + 1]

New(hp, level, prefix, out, flags) ==
    alloc(hp, [level |-> int32(level), prefix |-> prefix, flags |-> flags,
               out |-> out, buf |-> <<>>, mu |-> 0])

\* var std = New(LevelWarn, "", os.Stderr, 0), the first struct allocated.
std == 1

\* SetLevel without the upper clamp.
SetLevel_noUpperClamp(hp, a, level) ==
    [hp EXCEPT ![a].level = int32(IF Lt(level, LevelQuiet) THEN LevelQuiet ELSE level)]

SetLevel(hp, a, level) ==
    LET clamped == IF Lt(level, LevelQuiet) THEN LevelQuiet
                   ELSE IF Lt(LevelTrace, level) THEN LevelTrace
                   ELSE level
    IN [hp EXCEPT ![a].level = int32(clamped)]

GetLevel(hp, a) == Level(hp[a].level)

SetFlags(hp, a, flags) == [hp EXCEPT ![a].flags = flags]

GetFlags(hp, a) == hp[a].flags

SetPrefix(hp, a, prefix) == [hp EXCEPT ![a].prefix = prefix]

GetPrefix(hp, a) == hp[a].prefix

SetOutput(hp, a, out) == [hp EXCEPT ![a].out = out]

GetOutput(hp, a) == hp[a].out

buildHeader(l, level, buf, t) ==
    LET pref == IF level \in DOMAIN levelPrefixes THEN levelPrefixes[level] ELSE <<>>
        b1 == iToA(buf \o pref \o <<"/">>, Clock(t)[1], 2)
        b2 == iToA(b1 \o <<":">>, Clock(t)[2], 2)
        b3 == iToA(b2 \o <<":">>, Clock(t)[3], 2)
    IN b3 \o <<" ">> \o l.prefix \o <<":", " ">>

\* The test l.flags != 0 in place of the test of the ColorMode bit.
hasFlag_anyBit(flags, f) == flags # 0

\* l.flags&FlagColorMode != 0, for the one-bit flag
hasFlag(flags, f) == (flags \div f) % 2 # 0

\* printOutBuf appending its newline whatever the body ends with.
printOutBuf_alwaysNewline(l, level, s, now) ==
    LET hasColor == level \in DOMAIN levelColors /\ hasFlag(l.flags, FlagColorMode)
        b0 == IF hasColor THEN levelColors[level] ELSE <<>>
        b2 == buildHeader(l, level, b0, now) \o s \o <<"\n">>
    IN IF hasColor THEN b2 \o colorReset ELSE b2

\* printOut appending to what l.buf holds, without l.buf = l.buf[:0].
printOutBuf_keepsBuf(l, level, s, now) ==
    LET hasColor == level \in DOMAIN levelColors /\ hasFlag(l.flags, FlagColorMode)
        b0 == IF hasColor THEN l.buf \o levelColors[level] ELSE l.buf
        b1 == buildHeader(l, level, b0, now) \o s
        b2 == IF Len(s) = 0 \/ s[Len(s)] # "\n" THEN b1 \o <<"\n">> ELSE b1
    IN IF hasColor THEN b2 \o colorReset ELSE b2

\* The bytes printOut leaves in l.buf and hands to l.out.Write.
printOutBuf(l, level, s, now) ==
    LET reset == SubSeq(l.buf, 1, 0)
        hasColor == level \in DOMAIN levelColors /\ hasFlag(l.flags, FlagColorMode)
        b0 == IF hasColor THEN reset \o levelColors[level] ELSE reset
        b1 == buildHeader(l, level, b0, now) \o s
        b2 == IF Len(s) = 0 \/ s[Len(s)] # "\n" THEN b1 \o <<"\n">> ELSE b1
    IN IF hasColor THEN b2 \o colorReset ELSE b2

\* printOut with the mutex taken and released inside: the heap it leaves and
\* the Write calls it made.
printOut(hp, a, level, s, now) ==
    LET buf == printOutBuf(hp[a], level, s, now)
    IN [heap |-> [hp EXCEPT ![a].buf = buf],
        w |-> <<[to |-> hp[a].out, b |-> buf]>>]

\* atomic.LoadInt32(&l.level) < int32(level)
gated(l, level) == l.level < int32(level)

\* Print returning from the gate without looking at LevelFatal.
logger_Print_returnsWhenGated(hp, a, level, v, now) ==
    IF gated(hp[a], level)
    THEN [heap |-> hp, w |-> <<>>, exit |-> FALSE]
    ELSE LET r == printOut(hp, a, level, Sprint(v), now)
         IN [heap |-> r.heap, w |-> r.w, exit |-> level = LevelFatal]

logger_Print(hp, a, level, v, now) ==
    IF gated(hp[a], level)
    THEN [heap |-> hp, w |-> <<>>, exit |-> level = LevelFatal]
    ELSE LET r == printOut(hp, a, level, Sprint(v), now)
         IN [heap |-> r.heap, w |-> r.w, exit |-> level = LevelFatal]

logger_Println(hp, a, level, v, now) ==
    IF gated(hp[a], level)
    THEN [heap |-> hp, w |-> <<>>, exit |-> level = LevelFatal]
    ELSE LET r == printOut(hp, a, level, Sprintln(v), now)
         IN [heap |-> r.heap, w |-> r.w, exit |-> level = LevelFatal]

\* Printf testing level == LevelFatal as Print and Println do.
logger_Printf_fatalOnly(hp, a, level, format, v, now) ==
    IF gated(hp[a], level)
    THEN [heap |-> hp, w |-> <<>>, exit |-> level = LevelFatal]
    ELSE LET r == printOut(hp, a, level, Sprintf(format, v), now)
         IN [heap |-> r.heap, w |-> r.w, exit |-> level = LevelFatal]

logger_Printf(hp, a, level, format, v, now) ==
    IF gated(hp[a], level)
    THEN [heap |-> hp, w |-> <<>>, exit |-> Le(level, LevelFatal)]
    ELSE LET r == printOut(hp, a, level, Sprintf(format, v), now)
         IN [heap |-> r.heap, w |-> r.w, exit |-> Le(level, LevelFatal)]

\* Clone handing back its receiver instead of a new struct.
Clone_sameStruct(hp, a) == [heap |-> hp, addr |-> a]

Clone(hp, a) == New(hp, Level(hp[a].level), hp[a].prefix, hp[a].out, hp[a].flags)

GetDefault == std

NewDefault(hp) == Clone(hp, std)

\* The package-level functions.
pkg_Print(hp, level, v, now) == logger_Print(hp, std, level, v, now)

pkg_Printf(hp, level, format, v, now) == logger_Printf(hp, std, level, format, v, now)

pkg_Println(hp, level, format, v, now) == logger_Printf(hp, std, level, format, v, now)

\* os.Exit(1)
ExitCode == 1

---------------------------------------------------------------------------
(* Inputs *)

NThreads == 2

Threads == 1..NThreads

LevelInputs ==
    {Level(n) : n \in (0 - OutOfRange)..(6 + OutOfRange)} \cup {GoInt(1, 0)}

PrefixInputs == {<<>>, <<"A", "P", "P">>}

FlagInputs == {0, FlagColorMode}

Sinks == {Stderr, "buf"}

\* A writer that rejects every Write, as a closed file does.
Closed == "closed"

\* The error a Write to writer w returns.
WriteError(w) == IF w = Closed THEN "ErrClosed" ELSE "nil"

\* Operand lists; each starts with a string, which Printf takes as its format.
ArgInputs ==
    { <<Str(<<"h", "i">>), Str(<<"x">>)>>,
      <<Str(<<"a", "%", "d", "\n">>), Num(7)>> }

StartTime == 14 * 3600 + 5 * 60 + 9

NoCall ==
    [op |-> "none", h |-> 0, level |-> LevelQuiet, a |-> <<>>, n |-> 0,
     out |-> Stderr, w |-> <<>>, exit |-> FALSE, ret |-> 0]

NoLocals ==
    [op |-> "none", a |-> 0, level |-> LevelQuiet, v |-> <<>>, s |-> <<>>, now |-> 0,
     hasColor |-> FALSE, nwrites |-> 0, e |-> "nil", out |-> Stderr, flags |-> 0, ret |-> 0]

Init ==
    /\ heap = New(<<>>, LevelWarn, <<>>, Stderr, 0).heap
    /\ hnd = <<GetDefault>>
    /\ cloneOf = <<0>>
    /\ sink = [w \in Sinks |-> <<>>]
    /\ exited = FALSE
    /\ exitStatus = 0
    /\ clock = StartTime
    /\ ncalls = 0
    /\ last = NoCall
    /\ pc = [t \in Threads |-> "idle"]
    /\ loc = [t \in Threads |-> NoLocals]

---------------------------------------------------------------------------
(* The sequential specification: one caller, one whole call per step. *)

\* The Write calls w, delivered to their writers in order.
RECURSIVE deliver(_, _)
deliver(sk, w) ==
    IF w = <<>> THEN sk
    ELSE deliver([sk EXCEPT ![w[1].to] = Append(@, w[1].b)], Tail(w))

\* A call that ends: the state it leaves and the record of it.
Returns(call, hp, w, exit) ==
    /\ ~exited
    /\ ncalls < MaxCalls
    /\ ncalls' = ncalls + 1
    /\ heap' = hp
    /\ sink' = deliver(sink, w)
    /\ exited' = exit
    /\ exitStatus' = IF exit THEN ExitCode ELSE exitStatus
    /\ last' = [call EXCEPT !.w = w, !.exit = exit]
    /\ UNCHANGED <<clock, pc, loc>>

CallNew(level, prefix, out, flags) ==
    LET r == New(heap, level, prefix, out, flags)
    IN /\ Returns([NoCall EXCEPT !.op = "New", !.level = level, !.a = <<Str(prefix)>>,
                                 !.out = out, !.n = flags, !.ret = Len(hnd) + 1],
                  r.heap, <<>>, FALSE)
       /\ hnd' = Append(hnd, r.addr)
       /\ cloneOf' = Append(cloneOf, 0)

CallClone(h) ==
    LET r == Clone(heap, hnd[h])
    IN /\ Returns([NoCall EXCEPT !.op = "Clone", !.h = h, !.ret = Len(hnd) + 1],
                  r.heap, <<>>, FALSE)
       /\ hnd' = Append(hnd, r.addr)
       /\ cloneOf' = Append(cloneOf, h)

CallNewDefault ==
    LET r == NewDefault(heap)
    IN /\ Returns([NoCall EXCEPT !.op = "NewDefault", !.ret = Len(hnd) + 1],
                  r.heap, <<>>, FALSE)
       /\ hnd' = Append(hnd, r.addr)
       /\ cloneOf' = Append(cloneOf, 1)

CallSetLevel(h, level) ==
    /\ Returns([NoCall EXCEPT !.op = "SetLevel", !.h = h, !.level = level],
               SetLevel(heap, hnd[h], level), <<>>, FALSE)
    /\ UNCHANGED <<hnd, cloneOf>>

CallSetFlags(h, flags) ==
    /\ Returns([NoCall EXCEPT !.op = "SetFlags", !.h = h, !.n = flags],
               SetFlags(heap, hnd[h], flags), <<>>, FALSE)
    /\ UNCHANGED <<hnd, cloneOf>>

CallSetPrefix(h, prefix) ==
    /\ Returns([NoCall EXCEPT !.op = "SetPrefix", !.h = h, !.a = <<Str(prefix)>>],
               SetPrefix(heap, hnd[h], prefix), <<>>, FALSE)
    /\ UNCHANGED <<hnd, cloneOf>>

CallSetOutput(h, out) ==
    /\ Returns([NoCall EXCEPT !.op = "SetOutput", !.h = h, !.out = out],
               SetOutput(heap, hnd[h], out), <<>>, FALSE)
    /\ UNCHANGED <<hnd, cloneOf>>

CallPrint(h, level, v) ==
    LET r == logger_Print(heap, hnd[h], level, v, clock)
    IN /\ Returns([NoCall EXCEPT !.op = "Print", !.h = h, !.level = level, !.a = v],
                  r.heap, r.w, r.exit)
       /\ UNCHANGED <<hnd, cloneOf>>

CallPrintln(h, level, v) ==
    LET r == logger_Println(heap, hnd[h], level, v, clock)
    IN /\ Returns([NoCall EXCEPT !.op = "Println", !.h = h, !.level = level, !.a = v],
                  r.heap, r.w, r.exit)
       /\ UNCHANGED <<hnd, cloneOf>>

CallPrintf(h, level, v) ==
    LET r == logger_Printf(heap, hnd[h], level, v[1].s, Tail(v), clock)
    IN /\ Returns([NoCall EXCEPT !.op = "Printf", !.h = h, !.level = level, !.a = v],
                  r.heap, r.w, r.exit)
       /\ UNCHANGED <<hnd, cloneOf>>

CallPkgPrint(level, v) ==
    LET r == pkg_Print(heap, level, v, clock)
    IN /\ Returns([NoCall EXCEPT !.op = "pkg.Print", !.level = level, !.a = v],
                  r.heap, r.w, r.exit)
       /\ UNCHANGED <<hnd, cloneOf>>

CallPkgPrintln(level, v) ==
    LET r == pkg_Println(heap, level, v[1].s, Tail(v), clock)
    IN /\ Returns([NoCall EXCEPT !.op = "pkg.Println", !.level = level, !.a = v],
                  r.heap, r.w, r.exit)
       /\ UNCHANGED <<hnd, cloneOf>>

CallPkgPrintf(level, v) ==
    LET r == pkg_Printf(heap, level, v[1].s, Tail(v), clock)
    IN /\ Returns([NoCall EXCEPT !.op = "pkg.Printf", !.level = level, !.a = v],
                  r.heap, r.w, r.exit)
       /\ UNCHANGED <<hnd, cloneOf>>

Handles == 1..Len(hnd)

Next ==
    \/ \E level \in LevelInputs : CallNew(level, <<"A", "P", "P">>, "buf", FlagColorMode)
    \/ \E h \in Handles : CallClone(h)
    \/ CallNewDefault
    \/ \E h \in Handles, level \in LevelInputs : CallSetLevel(h, level)
    \/ \E h \in Handles, flags \in FlagInputs : CallSetFlags(h, flags)
    \/ \E h \in Handles, prefix \in PrefixInputs : CallSetPrefix(h, prefix)
    \/ \E h \in Handles, out \in Sinks : CallSetOutput(h, out)
    \/ \E h \in Handles, level \in LevelInputs, v \in ArgInputs : CallPrint(h, level, v)
    \/ \E h \in Handles, level \in LevelInputs, v \in ArgInputs : CallPrintln(h, level, v)
    \/ \E h \in Handles, level \in LevelInputs, v \in ArgInputs : CallPrintf(h, level, v)
    \/ \E level \in LevelInputs, v \in ArgInputs : CallPkgPrint(level, v)
    \/ \E level \in LevelInputs, v \in ArgInputs : CallPkgPrintln(level, v)
    \/ \E level \in LevelInputs, v \in ArgInputs : CallPkgPrintf(level, v)

Spec == Init /\ [][Next]_vars

---------------------------------------------------------------------------
(* The rendering specification: printOut applied to every input.  The      *)
(* default logger starts with any flags and prefix SetFlags and SetPrefix  *)
(* can give it, at any of the sample times.                                *)

\* Lines one behaviour of the rendering specification writes.
MaxRenders == 1
\* The longest message body.
MaxBody == 2

RECURSIVE SeqsUpTo(_, _)
SeqsUpTo(S, n) ==
    IF n = 0 THEN {<<>>}
    ELSE LET shorter == SeqsUpTo(S, n - 1)
         IN shorter \cup {Append(q, x) : q \in shorter, x \in S}

BodyInputs == SeqsUpTo({"a", "\n"}, MaxBody)

ClockInputs == {0, StartTime, 23 * 3600 + 59 * 60 + 59}

RenderFlagInputs == {0, FlagColorMode, 2, 2 + FlagColorMode}

InitRender ==
    /\ \E flags \in RenderFlagInputs, prefix \in PrefixInputs :
          heap = SetPrefix(SetFlags(New(<<>>, LevelWarn, <<>>, Stderr, 0).heap, std, flags),
                           std, prefix)
    /\ hnd = <<GetDefault>>
    /\ cloneOf = <<0>>
    /\ sink = [w \in Sinks |-> <<>>]
    /\ exited = FALSE
    /\ exitStatus = 0
    /\ clock \in ClockInputs
    /\ ncalls = 0
    /\ last = NoCall
    /\ pc = [t \in Threads |-> "idle"]
    /\ loc = [t \in Threads |-> NoLocals]

CallPrintOut(level, s) ==
    LET r == printOut(heap, std, level, s, clock)
    IN /\ ncalls < MaxRenders
       /\ ncalls' = ncalls + 1
       /\ heap' = r.heap
       /\ sink' = deliver(sink, r.w)
       /\ last' = [NoCall EXCEPT !.op = "printOut", !.h = 1, !.level = level,
                                 !.a = <<Str(s)>>, !.w = r.w]
       /\ UNCHANGED <<hnd, cloneOf, exited, exitStatus, clock, pc, loc>>

NextRender == \E level \in LevelInputs, s \in BodyInputs : CallPrintOut(level, s)

SpecRender == InitRender /\ [][NextRender]_vars

---------------------------------------------------------------------------
(* The header specification: lines rendered one after another on the       *)
(* default logger with ColorMode off, at times that take every hour, every *)
(* minute and every second of the clock.                                   *)

\* Lines one behaviour of the header specification writes.
MaxLines == 2

\* Every hour 0..23 and every minute and second 0..59 occurs; 14:05:09 too.
TimeInputs == {(k % 24) * 3600 + k * 60 + k : k \in 0..59} \cup {StartTime}

HeaderBodies == {<<"h", "e", "l", "l", "o">>, <<"a", "\n">>, <<>>}

HeaderLevels == {LevelFatal, LevelError, LevelWarn, LevelInfo, LevelDebug, LevelTrace}

InitHeader ==
    /\ \E prefix \in PrefixInputs :
          heap = SetPrefix(New(<<>>, LevelWarn, <<>>, Stderr, 0).heap, std, prefix)
    /\ hnd = <<GetDefault>>
    /\ cloneOf = <<0>>
    /\ sink = [w \in Sinks |-> <<>>]
    /\ exited = FALSE
    /\ exitStatus = 0
    /\ clock \in TimeInputs
    /\ ncalls = 0
    /\ last = NoCall
    /\ pc = [t \in Threads |-> "idle"]
    /\ loc = [t \in Threads |-> NoLocals]

\* One more printOut on the logger, whose buffer holds the line before.
RenderLine(level, s) ==
    LET r == printOut(heap, std, level, s, clock)
    IN /\ ncalls < MaxLines
       /\ ncalls' = ncalls + 1
       /\ heap' = r.heap
       /\ sink' = deliver(sink, r.w)
       /\ last' = [NoCall EXCEPT !.op = "printOut", !.h = 1, !.level = level,
                                 !.a = <<Str(s)>>, !.w = r.w]
       /\ UNCHANGED <<hnd, cloneOf, exited, exitStatus, clock, pc, loc>>

NextHeader == \E level \in HeaderLevels, s \in HeaderBodies : RenderLine(level, s)

SpecHeader == InitHeader /\ [][NextHeader]_vars

---------------------------------------------------------------------------
(* The concurrent specification: NThreads threads, each making one call on *)
(* the default logger, one statement per step.  pc[t] names the statement  *)
(* thread t executes next; loc[t] holds the call's arguments and locals.   *)

\* Message levels the threads pass.
ConcLevelInputs == {LevelFatal, LevelError, LevelInfo}

\* The operands thread t passes: its own number makes its line its own.
Operands(t) == <<Str(<<"m", "%", "d">>), Num(t)>>

\* The message body an entry point renders from its operands.
message(op, v) ==
    IF op = "Print" THEN Sprint(v)
    ELSE IF op = "Println" THEN Sprintln(v)
    ELSE Sprintf(v[1].s, Tail(v))

\* The test that sends an entry point to os.Exit.
fatal(op, level) == IF op = "Printf" THEN Le(level, LevelFatal) ELSE level = LevelFatal

\* A mutex whose Lock never waits.
canLock_never_waits(l) == l.mu = l.mu

\* sync.Mutex: Lock returns only when no thread holds the mutex.
canLock(l) == l.mu = 0

Goto(t, stmt) == pc' = [pc EXCEPT ![t] = stmt]

At(t, stmt) == ~exited /\ pc[t] = stmt

Seq1 == <<hnd, cloneOf, ncalls, last>>

\* os.Exit(1): the process ends, every thread with it.
Exit(t) ==
    /\ exited' = TRUE
    /\ exitStatus' = ExitCode
    /\ Goto(t, "exited")

\* A thread calls Print, Println or Printf on the default logger.
CallEmit(t, op, level) ==
    /\ At(t, "idle")
    /\ loc' = [loc EXCEPT ![t] = [NoLocals EXCEPT !.op = op, !.a = GetDefault,
                                                  !.level = level, !.v = Operands(t)]]
    /\ Goto(t, "gate")
    /\ UNCHANGED <<heap, sink, exited, exitStatus, clock>> /\ UNCHANGED Seq1

\* An entry point that makes its fatal test before printOut, not after.
Gate_exitsBeforePrintOut(t) ==
    /\ At(t, "gate")
    /\ IF gated(heap[loc[t].a], loc[t].level)
       THEN /\ IF fatal(loc[t].op, loc[t].level)
               THEN Exit(t)
               ELSE Goto(t, "done") /\ UNCHANGED <<exited, exitStatus>>
            /\ UNCHANGED loc
       ELSE /\ loc' = [loc EXCEPT ![t].s = message(loc[t].op, loc[t].v)]
            /\ IF fatal(loc[t].op, loc[t].level)
               THEN Exit(t)
               ELSE Goto(t, "printOut") /\ UNCHANGED <<exited, exitStatus>>
    /\ UNCHANGED <<heap, sink, clock>> /\ UNCHANGED Seq1

\* if atomic.LoadInt32(&l.level) < int32(level) { if fatal { os.Exit(1) }; return }
Gate(t) ==
    /\ At(t, "gate")
    /\ IF gated(heap[loc[t].a], loc[t].level)
       THEN /\ IF fatal(loc[t].op, loc[t].level)
               THEN Exit(t)
               ELSE Goto(t, "done") /\ UNCHANGED <<exited, exitStatus>>
            /\ UNCHANGED loc
       ELSE /\ loc' = [loc EXCEPT ![t].s = message(loc[t].op, loc[t].v)]
            /\ Goto(t, "printOut")
            /\ UNCHANGED <<exited, exitStatus>>
    /\ UNCHANGED <<heap, sink, clock>> /\ UNCHANGED Seq1

\* now := time.Now()
TimeNow(t) ==
    /\ At(t, "printOut")
    /\ loc' = [loc EXCEPT ![t].now = clock]
    /\ Goto(t, "printOut.Lock")
    /\ UNCHANGED <<heap, sink, exited, exitStatus, clock>> /\ UNCHANGED Seq1

\* l.Lock()
Lock(t, stmt, next) ==
    /\ At(t, stmt)
    /\ canLock(heap[loc[t].a])
    /\ heap' = [heap EXCEPT ![loc[t].a].mu = t]
    /\ Goto(t, next)
    /\ UNCHANGED <<loc, sink, exited, exitStatus, clock>> /\ UNCHANGED Seq1

\* A method that returns without the deferred l.Unlock().
Unlock_forgotten(t, stmt, next) ==
    /\ At(t, stmt)
    /\ Goto(t, next)
    /\ UNCHANGED <<heap, loc, sink, exited, exitStatus, clock>> /\ UNCHANGED Seq1

\* the deferred l.Unlock()
Unlock(t, stmt, next) ==
    /\ At(t, stmt)
    /\ heap' = [heap EXCEPT ![loc[t].a].mu = 0]
    /\ Goto(t, next)
    /\ UNCHANGED <<loc, sink, exited, exitStatus, clock>> /\ UNCHANGED Seq1

PrintOutLock(t) == Lock(t, "printOut.Lock", "printOut.reset")

\* l.buf = l.buf[:0]; the color, when the level has one and the flag is set
PrintOutReset(t) ==
    LET l == heap[loc[t].a]
        hasColor == loc[t].level \in DOMAIN levelColors /\ hasFlag(l.flags, FlagColorMode)
    IN /\ At(t, "printOut.reset")
       /\ heap' = [heap EXCEPT ![loc[t].a].buf =
                        IF hasColor THEN levelColors[loc[t].level] ELSE <<>>]
       /\ loc' = [loc EXCEPT ![t].hasColor = hasColor]
       /\ Goto(t, "printOut.buildHeader")
       /\ UNCHANGED <<sink, exited, exitStatus, clock>> /\ UNCHANGED Seq1

\* l.buildHeader(level, &l.buf, now)
PrintOutHeader(t) ==
    LET l == heap[loc[t].a]
    IN /\ At(t, "printOut.buildHeader")
       /\ heap' = [heap EXCEPT ![loc[t].a].buf = buildHeader(l, loc[t].level, l.buf, loc[t].now)]
       /\ Goto(t, "printOut.append")
       /\ UNCHANGED <<loc, sink, exited, exitStatus, clock>> /\ UNCHANGED Seq1

\* the body, the newline it lacks, the color reset
PrintOutAppend(t) ==
    LET l == heap[loc[t].a]
        body == loc[t].s
        b1 == l.buf \o body
        b2 == IF Len(body) = 0 \/ body[Len(body)] # "\n" THEN b1 \o <<"\n">> ELSE b1
    IN /\ At(t, "printOut.append")
       /\ heap' = [heap EXCEPT ![loc[t].a].buf = IF loc[t].hasColor THEN b2 \o colorReset ELSE b2]
       /\ Goto(t, "printOut.Write")
       /\ UNCHANGED <<loc, sink, exited, exitStatus, clock>> /\ UNCHANGED Seq1

\* printOut writing the line to os.Stderr when l.out rejects it.
PrintOutWrite_fallback(t) ==
    LET l == heap[loc[t].a]
        w == [to |-> l.out, b |-> l.buf]
    IN /\ At(t, "printOut.Write")
       /\ sink' = deliver(sink, IF WriteError(l.out) = "nil" THEN <<w>>
                                ELSE <<w, [to |-> Stderr, b |-> l.buf]>>)
       /\ loc' = [loc EXCEPT ![t].nwrites = @ + 1, ![t].e = WriteError(l.out)]
       /\ Goto(t, "printOut.Unlock")
       /\ UNCHANGED <<heap, exited, exitStatus, clock>> /\ UNCHANGED Seq1

\* _, e := l.out.Write(l.buf)
PrintOutWrite(t) ==
    LET l == heap[loc[t].a]
    IN /\ At(t, "printOut.Write")
       /\ sink' = deliver(sink, <<[to |-> l.out, b |-> l.buf]>>)
       /\ loc' = [loc EXCEPT ![t].nwrites = @ + 1, ![t].e = WriteError(l.out)]
       /\ Goto(t, "printOut.Unlock")
       /\ UNCHANGED <<heap, exited, exitStatus, clock>> /\ UNCHANGED Seq1

PrintOutUnlock(t) == Unlock(t, "printOut.Unlock", "printed")

\* if fatal { os.Exit(1) } after printOut has returned
AfterPrintOut(t) ==
    /\ At(t, "printed")
    /\ IF fatal(loc[t].op, loc[t].level)
       THEN Exit(t)
       ELSE Goto(t, "done") /\ UNCHANGED <<exited, exitStatus>>
    /\ UNCHANGED <<heap, loc, sink, clock>> /\ UNCHANGED Seq1

\* SetLevel going through the mutex as the other setters do.
StepSetLevel_locked(t, level) ==
    /\ At(t, "idle")
    /\ canLock(heap[GetDefault])
    /\ heap' = SetLevel(heap, GetDefault, level)
    /\ loc' = [loc EXCEPT ![t] = [NoLocals EXCEPT !.op = "SetLevel", !.a = GetDefault,
                                                  !.level = level]]
    /\ Goto(t, "done")
    /\ UNCHANGED <<sink, exited, exitStatus, clock>> /\ UNCHANGED Seq1

\* SetLevel: the clamp and one atomic store.
StepSetLevel(t, level) ==
    /\ At(t, "idle")
    /\ heap' = SetLevel(heap, GetDefault, level)
    /\ loc' = [loc EXCEPT ![t] = [NoLocals EXCEPT !.op = "SetLevel", !.a = GetDefault,
                                                  !.level = level]]
    /\ Goto(t, "done")
    /\ UNCHANGED <<sink, exited, exitStatus, clock>> /\ UNCHANGED Seq1

\* GetLevel: one atomic load; loc[t].level keeps the Level returned.
StepGetLevel(t) ==
    /\ At(t, "idle")
    /\ loc' = [loc EXCEPT ![t] = [NoLocals EXCEPT !.op = "GetLevel", !.a = GetDefault,
                                                  !.level = GetLevel(heap, GetDefault)]]
    /\ Goto(t, "done")
    /\ UNCHANGED <<heap, sink, exited, exitStatus, clock>> /\ UNCHANGED Seq1

\* A thread calls SetPrefix on the default logger.
StartSetPrefix(t, prefix) ==
    /\ At(t, "idle")
    /\ loc' = [loc EXCEPT ![t] = [NoLocals EXCEPT !.op = "SetPrefix", !.a = GetDefault,
                                                  !.s = prefix]]
    /\ Goto(t, "SetPrefix.Lock")
    /\ UNCHANGED <<heap, sink, exited, exitStatus, clock>> /\ UNCHANGED Seq1

SetPrefixLock(t) == Lock(t, "SetPrefix.Lock", "SetPrefix.store")

\* A string is two words, pointer and length, and so is an io.Writer, type
\* and data.  A store writes one word, then the other; between the two the
\* variable holds the new value if that is the old one, and otherwise a value
\* no one stored.
TornString == <<"?">>

TornWriter == "?"

\* l.prefix = prefix, the first word
SetPrefixStoreWord(t) ==
    /\ At(t, "SetPrefix.store")
    /\ heap' = SetPrefix(heap, loc[t].a,
                         IF heap[loc[t].a].prefix = loc[t].s THEN loc[t].s ELSE TornString)
    /\ Goto(t, "SetPrefix.store2")
    /\ UNCHANGED <<loc, sink, exited, exitStatus, clock>> /\ UNCHANGED Seq1

\* l.prefix = prefix
SetPrefixStore(t) ==
    /\ At(t, "SetPrefix.store2")
    /\ heap' = SetPrefix(heap, loc[t].a, loc[t].s)
    /\ Goto(t, "SetPrefix.Unlock")
    /\ UNCHANGED <<loc, sink, exited, exitStatus, clock>> /\ UNCHANGED Seq1

SetPrefixUnlock(t) == Unlock(t, "SetPrefix.Unlock", "done")

NextConc ==
    \/ \E t \in Threads, op \in {"Print", "Println", "Printf"}, level \in ConcLevelInputs :
          CallEmit(t, op, level)
    \/ \E t \in Threads : Gate(t)
    \/ \E t \in Threads : TimeNow(t)
    \/ \E t \in Threads : PrintOutLock(t)
    \/ \E t \in Threads : PrintOutReset(t)
    \/ \E t \in Threads : PrintOutHeader(t)
    \/ \E t \in Threads : PrintOutAppend(t)
    \/ \E t \in Threads : PrintOutWrite(t)
    \/ \E t \in Threads : PrintOutUnlock(t)
    \/ \E t \in Threads : AfterPrintOut(t)
    \/ \E t \in Threads, level \in {LevelQuiet, LevelTrace} : StepSetLevel(t, level)
    \/ \E t \in Threads : StepGetLevel(t)
    \/ \E t \in Threads : StartSetPrefix(t, <<"A", "P", "P">>)
    \/ \E t \in Threads : SetPrefixLock(t)
    \/ \E t \in Threads : SetPrefixStoreWord(t)
    \/ \E t \in Threads : SetPrefixStore(t)
    \/ \E t \in Threads : SetPrefixUnlock(t)

SpecConc == Init /\ [][NextConc]_vars

---------------------------------------------------------------------------
(* The shared-instance specification: the threads call the setters, the    *)
(* getters, Clone and Print on the default logger, one statement per step. *)

\* A thread calls SetFlags on the default logger.
StartSetFlags(t, flags) ==
    /\ At(t, "idle")
    /\ loc' = [loc EXCEPT ![t] = [NoLocals EXCEPT !.op = "SetFlags", !.a = GetDefault,
                                                  !.flags = flags]]
    /\ Goto(t, "SetFlags.Lock")
    /\ UNCHANGED <<heap, sink, exited, exitStatus, clock>> /\ UNCHANGED Seq1

SetFlagsLock(t) == Lock(t, "SetFlags.Lock", "SetFlags.store")

\* l.flags = flags
SetFlagsStore(t) ==
    /\ At(t, "SetFlags.store")
    /\ heap' = SetFlags(heap, loc[t].a, loc[t].flags)
    /\ Goto(t, "SetFlags.Unlock")
    /\ UNCHANGED <<loc, sink, exited, exitStatus, clock>> /\ UNCHANGED Seq1

SetFlagsUnlock(t) == Unlock(t, "SetFlags.Unlock", "done")

\* A thread calls SetOutput on the default logger.
StartSetOutput(t, out) ==
    /\ At(t, "idle")
    /\ loc' = [loc EXCEPT ![t] = [NoLocals EXCEPT !.op = "SetOutput", !.a = GetDefault,
                                                  !.out = out]]
    /\ Goto(t, "SetOutput.Lock")
    /\ UNCHANGED <<heap, sink, exited, exitStatus, clock>> /\ UNCHANGED Seq1

SetOutputLock(t) == Lock(t, "SetOutput.Lock", "SetOutput.store")

\* l.out = out, the first word
SetOutputStoreWord(t) ==
    /\ At(t, "SetOutput.store")
    /\ heap' = SetOutput(heap, loc[t].a,
                         IF heap[loc[t].a].out = loc[t].out THEN loc[t].out ELSE TornWriter)
    /\ Goto(t, "SetOutput.store2")
    /\ UNCHANGED <<loc, sink, exited, exitStatus, clock>> /\ UNCHANGED Seq1

\* l.out = out
SetOutputStore(t) ==
    /\ At(t, "SetOutput.store2")
    /\ heap' = SetOutput(heap, loc[t].a, loc[t].out)
    /\ Goto(t, "SetOutput.Unlock")
    /\ UNCHANGED <<loc, sink, exited, exitStatus, clock>> /\ UNCHANGED Seq1

SetOutputUnlock(t) == Unlock(t, "SetOutput.Unlock", "done")

\* A thread calls GetPrefix on the default logger.
StartGetPrefix(t) ==
    /\ At(t, "idle")
    /\ loc' = [loc EXCEPT ![t] = [NoLocals EXCEPT !.op = "GetPrefix", !.a = GetDefault]]
    /\ Goto(t, "GetPrefix.Lock")
    /\ UNCHANGED <<heap, sink, exited, exitStatus, clock>> /\ UNCHANGED Seq1

\* GetPrefix reading l.prefix without taking the mutex.
GetPrefixLock_skipped(t) ==
    /\ At(t, "GetPrefix.Lock")
    /\ Goto(t, "GetPrefix.load")
    /\ UNCHANGED <<heap, loc, sink, exited, exitStatus, clock>> /\ UNCHANGED Seq1

GetPrefixLock(t) == Lock(t, "GetPrefix.Lock", "GetPrefix.load")

\* return l.prefix: the result is read before the deferred Unlock runs
GetPrefixLoad(t) ==
    /\ At(t, "GetPrefix.load")
    /\ loc' = [loc EXCEPT ![t].s = GetPrefix(heap, loc[t].a)]
    /\ Goto(t, "GetPrefix.Unlock")
    /\ UNCHANGED <<heap, sink, exited, exitStatus, clock>> /\ UNCHANGED Seq1

GetPrefixUnlock(t) == Unlock(t, "GetPrefix.Unlock", "done")

\* A thread calls GetFlags on the default logger.
StartGetFlags(t) ==
    /\ At(t, "idle")
    /\ loc' = [loc EXCEPT ![t] = [NoLocals EXCEPT !.op = "GetFlags", !.a = GetDefault]]
    /\ Goto(t, "GetFlags.Lock")
    /\ UNCHANGED <<heap, sink, exited, exitStatus, clock>> /\ UNCHANGED Seq1

GetFlagsLock(t) == Lock(t, "GetFlags.Lock", "GetFlags.load")

\* return l.flags: the result is read before the deferred Unlock runs
GetFlagsLoad(t) ==
    /\ At(t, "GetFlags.load")
    /\ loc' = [loc EXCEPT ![t].flags = GetFlags(heap, loc[t].a)]
    /\ Goto(t, "GetFlags.Unlock")
    /\ UNCHANGED <<heap, sink, exited, exitStatus, clock>> /\ UNCHANGED Seq1

GetFlagsUnlock(t) == Unlock(t, "GetFlags.Unlock", "done")

\* A thread calls GetOutput on the default logger.
StartGetOutput(t) ==
    /\ At(t, "idle")
    /\ loc' = [loc EXCEPT ![t] = [NoLocals EXCEPT !.op = "GetOutput", !.a = GetDefault]]
    /\ Goto(t, "GetOutput.Lock")
    /\ UNCHANGED <<heap, sink, exited, exitStatus, clock>> /\ UNCHANGED Seq1

GetOutputLock(t) == Lock(t, "GetOutput.Lock", "GetOutput.load")

\* return l.out: the result is read before the deferred Unlock runs
GetOutputLoad(t) ==
    /\ At(t, "GetOutput.load")
    /\ loc' = [loc EXCEPT ![t].out = GetOutput(heap, loc[t].a)]
    /\ Goto(t, "GetOutput.Unlock")
    /\ UNCHANGED <<heap, sink, exited, exitStatus, clock>> /\ UNCHANGED Seq1

GetOutputUnlock(t) == Unlock(t, "GetOutput.Unlock", "done")

\* A thread calls Clone on the default logger.
StartClone(t) ==
    /\ At(t, "idle")
    /\ loc' = [loc EXCEPT ![t] = [NoLocals EXCEPT !.op = "Clone", !.a = GetDefault]]
    /\ Goto(t, "Clone.Lock")
    /\ UNCHANGED <<heap, sink, exited, exitStatus, clock>> /\ UNCHANGED Seq1

\* Clone reading the fields without taking the mutex.
CloneLock_skipped(t) ==
    /\ At(t, "Clone.Lock")
    /\ Goto(t, "Clone.level")
    /\ UNCHANGED <<heap, loc, sink, exited, exitStatus, clock>> /\ UNCHANGED Seq1

CloneLock(t) == Lock(t, "Clone.Lock", "Clone.level")

\* The operands of New, left to right: Level(atomic.LoadInt32(&l.level))
CloneLevel(t) ==
    /\ At(t, "Clone.level")
    /\ loc' = [loc EXCEPT ![t].level = Level(heap[loc[t].a].level)]
    /\ Goto(t, "Clone.prefix")
    /\ UNCHANGED <<heap, sink, exited, exitStatus, clock>> /\ UNCHANGED Seq1

\* l.prefix
ClonePrefix(t) ==
    /\ At(t, "Clone.prefix")
    /\ loc' = [loc EXCEPT ![t].s = heap[loc[t].a].prefix]
    /\ Goto(t, "Clone.out")
    /\ UNCHANGED <<heap, sink, exited, exitStatus, clock>> /\ UNCHANGED Seq1

\* l.out
CloneOut(t) ==
    /\ At(t, "Clone.out")
    /\ loc' = [loc EXCEPT ![t].out = heap[loc[t].a].out]
    /\ Goto(t, "Clone.flags")
    /\ UNCHANGED <<heap, sink, exited, exitStatus, clock>> /\ UNCHANGED Seq1

\* l.flags
CloneFlags(t) ==
    /\ At(t, "Clone.flags")
    /\ loc' = [loc EXCEPT ![t].flags = heap[loc[t].a].flags]
    /\ Goto(t, "Clone.New")
    /\ UNCHANGED <<heap, sink, exited, exitStatus, clock>> /\ UNCHANGED Seq1

\* newLog := New(...): loc[t].ret is the address of the clone
CloneNew(t) ==
    LET r == New(heap, loc[t].level, loc[t].s, loc[t].out, loc[t].flags)
    IN /\ At(t, "Clone.New")
       /\ heap' = r.heap
       /\ loc' = [loc EXCEPT ![t].ret = r.addr]
       /\ Goto(t, "Clone.Unlock")
       /\ UNCHANGED <<sink, exited, exitStatus, clock>> /\ UNCHANGED Seq1

CloneUnlock(t) == Unlock(t, "Clone.Unlock", "done")

\* Threads sharing the default logger: every setter and getter, Clone, and
\* Print of a message that passes the gate.
NextShared ==
    \/ \E t \in Threads : CallEmit(t, "Print", LevelError)
    \/ \E t \in Threads : Gate(t)
    \/ \E t \in Threads : TimeNow(t)
    \/ \E t \in Threads : PrintOutLock(t)
    \/ \E t \in Threads : PrintOutReset(t)
    \/ \E t \in Threads : PrintOutHeader(t)
    \/ \E t \in Threads : PrintOutAppend(t)
    \/ \E t \in Threads : PrintOutWrite(t)
    \/ \E t \in Threads : PrintOutUnlock(t)
    \/ \E t \in Threads : AfterPrintOut(t)
    \/ \E t \in Threads : StepSetLevel(t, LevelTrace)
    \/ \E t \in Threads : StartSetPrefix(t, <<"A", "P", "P">>)
    \/ \E t \in Threads : SetPrefixLock(t)
    \/ \E t \in Threads : SetPrefixStoreWord(t)
    \/ \E t \in Threads : SetPrefixStore(t)
    \/ \E t \in Threads : SetPrefixUnlock(t)
    \/ \E t \in Threads : StartSetFlags(t, FlagColorMode)
    \/ \E t \in Threads : SetFlagsLock(t)
    \/ \E t \in Threads : SetFlagsStore(t)
    \/ \E t \in Threads : SetFlagsUnlock(t)
    \/ \E t \in Threads : StartSetOutput(t, "buf")
    \/ \E t \in Threads : SetOutputLock(t)
    \/ \E t \in Threads : SetOutputStoreWord(t)
    \/ \E t \in Threads : SetOutputStore(t)
    \/ \E t \in Threads : SetOutputUnlock(t)
    \/ \E t \in Threads : StartGetPrefix(t)
    \/ \E t \in Threads : GetPrefixLock(t)
    \/ \E t \in Threads : GetPrefixLoad(t)
    \/ \E t \in Threads : GetPrefixUnlock(t)
    \/ \E t \in Threads : StartGetFlags(t)
    \/ \E t \in Threads : GetFlagsLock(t)
    \/ \E t \in Threads : GetFlagsLoad(t)
    \/ \E t \in Threads : GetFlagsUnlock(t)
    \/ \E t \in Threads : StartGetOutput(t)
    \/ \E t \in Threads : GetOutputLock(t)
    \/ \E t \in Threads : GetOutputLoad(t)
    \/ \E t \in Threads : GetOutputUnlock(t)
    \/ \E t \in Threads : StartClone(t)
    \/ \E t \in Threads : CloneLock(t)
    \/ \E t \in Threads : CloneLevel(t)
    \/ \E t \in Threads : ClonePrefix(t)
    \/ \E t \in Threads : CloneOut(t)
    \/ \E t \in Threads : CloneFlags(t)
    \/ \E t \in Threads : CloneNew(t)
    \/ \E t \in Threads : CloneUnlock(t)

SpecShared == Init /\ [][NextShared]_vars

---------------------------------------------------------------------------
(* The fair specification: threads calling Print, Printf of a Fatal         *)
(* message, SetOutput with a writer that rejects every Write, GetOutput and *)
(* Clone on the default logger; a thread inside a call is scheduled again   *)
(* and again, and every Write returns.                                      *)

InitLive ==
    /\ heap = New(<<>>, LevelWarn, <<>>, Stderr, 0).heap
    /\ hnd = <<GetDefault>>
    /\ cloneOf = <<0>>
    /\ sink = [w \in Sinks \cup {Closed} |-> <<>>]
    /\ exited = FALSE
    /\ exitStatus = 0
    /\ clock = StartTime
    /\ ncalls = 0
    /\ last = NoCall
    /\ pc = [t \in Threads |-> "idle"]
    /\ loc = [t \in Threads |-> NoLocals]

NextLive ==
    \/ \E t \in Threads : CallEmit(t, "Print", LevelError)
    \/ \E t \in Threads : CallEmit(t, "Printf", LevelFatal)
    \/ \E t \in Threads : Gate(t)
    \/ \E t \in Threads : TimeNow(t)
    \/ \E t \in Threads : PrintOutLock(t)
    \/ \E t \in Threads : PrintOutReset(t)
    \/ \E t \in Threads : PrintOutHeader(t)
    \/ \E t \in Threads : PrintOutAppend(t)
    \/ \E t \in Threads : PrintOutWrite(t)
    \/ \E t \in Threads : PrintOutUnlock(t)
    \/ \E t \in Threads : AfterPrintOut(t)
    \/ \E t \in Threads : StartSetOutput(t, Closed)
    \/ \E t \in Threads : SetOutputLock(t)
    \/ \E t \in Threads : SetOutputStoreWord(t)
    \/ \E t \in Threads : SetOutputStore(t)
    \/ \E t \in Threads : SetOutputUnlock(t)
    \/ \E t \in Threads : StartGetOutput(t)
    \/ \E t \in Threads : GetOutputLock(t)
    \/ \E t \in Threads : GetOutputLoad(t)
    \/ \E t \in Threads : GetOutputUnlock(t)
    \/ \E t \in Threads : StartClone(t)
    \/ \E t \in Threads : CloneLock(t)
    \/ \E t \in Threads : CloneLevel(t)
    \/ \E t \in Threads : ClonePrefix(t)
    \/ \E t \in Threads : CloneOut(t)
    \/ \E t \in Threads : CloneFlags(t)
    \/ \E t \in Threads : CloneNew(t)
    \/ \E t \in Threads : CloneUnlock(t)

\* Thread t, inside a call, executes its next statement.
Continue(t) == pc[t] # "idle" /\ NextLive /\ pc'[t] # pc[t]

SpecLive == InitLive /\ [][NextLive]_vars /\ \A t \in Threads : WF_vars(Continue(t))

---------------------------------------------------------------------------
(* The timed specification: threads calling Print on the default logger    *)
(* while the wall clock advances.                                          *)

\* Seconds the clock advances in one behaviour.
MaxTicks == 1

\* A second passes.
Tick ==
    /\ ~exited
    /\ clock < StartTime + MaxTicks
    /\ clock' = clock + 1
    /\ UNCHANGED <<heap, sink, exited, exitStatus, pc, loc>> /\ UNCHANGED Seq1

NextTimed ==
    \/ Tick
    \/ \E t \in Threads : CallEmit(t, "Print", LevelError)
    \/ \E t \in Threads : Gate(t)
    \/ \E t \in Threads : TimeNow(t)
    \/ \E t \in Threads : PrintOutLock(t)
    \/ \E t \in Threads : PrintOutReset(t)
    \/ \E t \in Threads : PrintOutHeader(t)
    \/ \E t \in Threads : PrintOutAppend(t)
    \/ \E t \in Threads : PrintOutWrite(t)
    \/ \E t \in Threads : PrintOutUnlock(t)
    \/ \E t \in Threads : AfterPrintOut(t)

SpecTimed == Init /\ [][NextTimed]_vars

---------------------------------------------------------------------------
(* The failing-writer specification: the threads of the concurrent         *)
(* specification emitting on the default logger after SetOutput has given  *)
(* it a writer that rejects every Write.                                   *)

InitFail ==
    /\ heap = SetOutput(New(<<>>, LevelWarn, <<>>, Stderr, 0).heap, std, Closed)
    /\ hnd = <<GetDefault>>
    /\ cloneOf = <<0>>
    /\ sink = [w \in Sinks \cup {Closed} |-> <<>>]
    /\ exited = FALSE
    /\ exitStatus = 0
    /\ clock = StartTime
    /\ ncalls = 0
    /\ last = NoCall
    /\ pc = [t \in Threads |-> "idle"]
    /\ loc = [t \in Threads |-> NoLocals]

NextFail ==
    \/ \E t \in Threads, op \in {"Print", "Println", "Printf"}, level \in ConcLevelInputs :
          CallEmit(t, op, level)
    \/ \E t \in Threads : Gate(t)
    \/ \E t \in Threads : TimeNow(t)
    \/ \E t \in Threads : PrintOutLock(t)
    \/ \E t \in Threads : PrintOutReset(t)
    \/ \E t \in Threads : PrintOutHeader(t)
    \/ \E t \in Threads : PrintOutAppend(t)
    \/ \E t \in Threads : PrintOutWrite(t)
    \/ \E t \in Threads : PrintOutUnlock(t)
    \/ \E t \in Threads : AfterPrintOut(t)

SpecFail == InitFail /\ [][NextFail]_vars

---------------------------------------------------------------------------
(* Properties of the sequential specification *)

EmitOps == {"Print", "Println", "Printf"}

SetterOps == {"SetLevel", "SetFlags", "SetPrefix", "SetOutput"}

\* The last call was op, made through a handle.
Did(ops) == last.op \in ops /\ last.h \in Handles

\* The receiver of the last call.
Recv == hnd[last.h]

\* C1: a Print, Println or Printf call whose message level is above
\* GetLevel() and is not Fatal writes nothing and returns.
C1_GatedCallWritesNothing ==
    (Did(EmitOps) /\ Lt(GetLevel(heap, Recv), last.level) /\ last.level # LevelFatal)
        => (last.w = <<>> /\ ~last.exit /\ ~exited)

\* C2: a Print, Println or Printf call with message level Fatal ends in
\* os.Exit with a non-zero status, at every instance level, gated or not;
\* it does not return.
C2_FatalAlwaysExits ==
    (Did(EmitOps) /\ last.level = LevelFatal)
        => (last.exit /\ exited /\ exitStatus # 0)

\* A Fatal message that the gate dropped (nothing written) and that exited.
C2_Witness ==
    /\ Did(EmitOps) /\ last.level = LevelFatal
    /\ Lt(GetLevel(heap, Recv), last.level)
    /\ last.w = <<>> /\ exited

\* C4: the level of every logger is within [Quiet, Trace].
C4_LevelInRange ==
    \A a \in 1..Len(heap) :
        Le(LevelQuiet, GetLevel(heap, a)) /\ Le(GetLevel(heap, a), LevelTrace)

\* x clamped to [Quiet, Trace]
Nearest(x) ==
    IF Lt(x, LevelQuiet) THEN LevelQuiet ELSE IF Lt(LevelTrace, x) THEN LevelTrace ELSE x

\* C5: after SetLevel(x), GetLevel() is x clamped to the nearest of Quiet and
\* Trace; the call returns, and it changes nothing but the receiver's level.
C5_SetLevelClamps ==
    [][(ncalls' = ncalls + 1 /\ last'.op = "SetLevel") =>
          /\ GetLevel(heap', hnd[last'.h]) = Nearest(last'.level)
          /\ heap' = [heap EXCEPT ![hnd[last'.h]].level = heap'[hnd[last'.h]].level]
          /\ sink' = sink /\ hnd' = hnd /\ ~exited' /\ last'.w = <<>>]_vars

\* SetLevel was given a level above Trace while another logger keeps level Warn.
C5_Witness ==
    /\ Did({"SetLevel"}) /\ Lt(LevelTrace, last.level)
    /\ GetLevel(heap, Recv) = LevelTrace
    /\ \E a \in 1..Len(heap) : a # Recv /\ GetLevel(heap, a) = LevelWarn

\* C6: the package-level Println does what GetDefault().Println does with the
\* same level and operands: the same bytes to the same writer, the same exit.
\* (An emit call reads level, prefix, flags and out and changes none of them,
\* so the method's effect is computed on the state the call left.)
C6_PkgPrintlnIsDefaultPrintln ==
    last.op = "pkg.Println" =>
        LET r == logger_Println(heap, GetDefault, last.level, last.a, clock)
        IN last.w = r.w /\ last.exit = r.exit

\* C7: Print and Println call os.Exit iff the message level is Fatal; Printf
\* calls it iff the message level is <= Fatal.
C7_ExitCases ==
    /\ Did({"Print", "Println"}) => (last.exit <=> last.level = LevelFatal)
    /\ Did({"Printf"}) => (last.exit <=> Le(last.level, LevelFatal))
    /\ Did(EmitOps) => (exited <=> last.exit)

\* Printf with message level Quiet exited, having written its line.
C7_Witness ==
    Did({"Printf"}) /\ last.level = LevelQuiet /\ exited /\ Len(last.w) = 1

\* The handles c and its source, for every clone c.
ClonePairs == {<<c, cloneOf[c]>> : c \in {k \in Handles : cloneOf[k] # 0}}

Config(hp, a) == <<GetLevel(hp, a), GetPrefix(hp, a), GetFlags(hp, a), GetOutput(hp, a)>>

\* C8: a clone starts with its source's level, prefix, flags and writer, is
\* another struct (its own mutex and buffer), and a setter called on either
\* leaves what the other's getters return unchanged.
C8_CloneIndependent ==
    [][/\ \A p \in ClonePairs' : hnd'[p[1]] # hnd'[p[2]]
       /\ (ncalls' = ncalls + 1 /\ last'.op \in {"Clone", "NewDefault"}) =>
             Config(heap', hnd'[last'.ret]) = Config(heap, hnd[cloneOf'[last'.ret]])
       /\ (ncalls' = ncalls + 1 /\ last'.op \in SetterOps) =>
             \A p \in ClonePairs :
                /\ last'.h = p[1] => Config(heap', hnd[p[2]]) = Config(heap, hnd[p[2]])
                /\ last'.h = p[2] => Config(heap', hnd[p[1]]) = Config(heap, hnd[p[1]])]_vars

\* SetPrefix on a clone left the clone with a prefix its source does not have.
C8_Witness ==
    /\ Did({"SetPrefix"}) /\ cloneOf[last.h] # 0
    /\ GetPrefix(heap, Recv) # GetPrefix(heap, hnd[cloneOf[last.h]])
    /\ GetPrefix(heap, Recv) = last.a[1].s

\* C9: at instance level Quiet no Print, Println or Printf call writes.
C9_QuietWritesNothing ==
    (Did(EmitOps) /\ GetLevel(heap, Recv) = LevelQuiet) => last.w = <<>>

---------------------------------------------------------------------------
(* Properties of the concurrent specification *)

\* Thread t's call passed the gate: its message body is rendered.
Passed(t) == loc[t].op \in EmitOps /\ loc[t].s # <<>>

\* Thread t's call passed the gate and is past its l.out.Write.
AfterWrite(t) == Passed(t) /\ pc[t] \in {"printOut.Unlock", "printed", "done", "exited"}

\* The whole lines thread t's call can render: its level, body and time, with
\* a prefix and flags the logger can have.
LinesOf(t) ==
    {printOutBuf([prefix |-> prefix, flags |-> flags, buf |-> <<>>],
                 loc[t].level, loc[t].s, loc[t].now) :
        prefix \in PrefixInputs, flags \in FlagInputs}

\* Every Write received, as (writer, position).
Writes == UNION {{<<w, i>> : i \in 1..Len(sink[w])} : w \in Sinks}

\* C3: threads emitting on one logger leave one whole line per call that
\* passed the gate: each such call makes exactly one Write, holding the
\* mutex; every Write received is the whole line of one call, and each call's
\* line is there once.
C3_OneWholeLinePerCall ==
    /\ \A t \in Threads : loc[t].nwrites = IF AfterWrite(t) THEN 1 ELSE 0
    /\ \A t \in Threads : pc[t] = "printOut.Unlock" => heap[loc[t].a].mu = t
    /\ Cardinality(Writes) = Cardinality({t \in Threads : AfterWrite(t)})
    /\ \A x \in Writes : \E t \in Threads : AfterWrite(t) /\ sink[x[1]][x[2]] \in LinesOf(t)
    /\ \A t \in Threads :
          AfterWrite(t) => Cardinality({x \in Writes : sink[x[1]][x[2]] \in LinesOf(t)}) = 1

\* Every thread called Println, passed the gate and returned: NThreads lines.
C3_Witness ==
    /\ \A t \in Threads : loc[t].op = "Println" /\ pc[t] = "done" /\ loc[t].nwrites = 1
    /\ Len(sink[Stderr]) = NThreads

\* The thread that holds the default logger's mutex (0: none).
Holder == heap[GetDefault].mu

\* Thread t is about to load the level in an emit call the gate will drop.
AtGateGatedOut(t) == At(t, "gate") /\ gated(heap[loc[t].a], loc[t].level)

\* A step in which thread t makes a SetLevel or GetLevel call, or leaves the
\* gate of an emit call that is gated out.
LevelOpStep(t) ==
    \/ pc[t] = "idle" /\ pc'[t] # "idle" /\ loc'[t].op \in {"SetLevel", "GetLevel"}
    \/ AtGateGatedOut(t) /\ pc'[t] # "gate"

\* C12: SetLevel, GetLevel and a gated-out emit call complete without taking
\* the mutex: whoever holds the mutex, each of them can take its step, and the
\* step ends the call (return or os.Exit) and leaves the mutex as it was.
C12_LevelOpsNeverBlock ==
    /\ [](\A t \in Threads :
            /\ At(t, "idle") =>
                  /\ ENABLED StepGetLevel(t)
                  /\ \A level \in {LevelQuiet, LevelTrace} : ENABLED StepSetLevel(t, level)
            /\ AtGateGatedOut(t) => ENABLED Gate(t))
    /\ [][\A t \in Threads :
            LevelOpStep(t) => (pc'[t] \in {"done", "exited"} /\ Holder' = Holder)]_vars

\* Thread 1 sits in l.out.Write holding the mutex; thread 2 has made a
\* SetLevel(Quiet) call since thread 1 passed the gate, and has returned.
C12_Witness ==
    /\ pc[1] = "printOut.Write" /\ Holder = 1 /\ loc[1].now = clock
    /\ pc[2] = "done" /\ loc[2].op = "SetLevel" /\ heap[GetDefault].level = 0

\* C16: a call whose level is fatal for its entry point and that passed the
\* gate ends the process only from the statement after printOut: by then it
\* has made its one Write, the writer has its whole line, and the call does
\* not hold the mutex.  (The call's own os.Exit is meant; another thread's
\* fatal call ends the process whenever it gets there.)
C16_ExitAfterWrite ==
    /\ [](\A t \in Threads :
            (pc[t] = "exited" /\ Passed(t)) =>
               /\ loc[t].nwrites = 1
               /\ Holder # t
               /\ \E x \in Writes : sink[x[1]][x[2]] \in LinesOf(t))
    /\ [][\A t \in Threads :
            (Passed(t)' /\ pc[t] # "exited" /\ pc'[t] = "exited") =>
               (pc[t] = "printed" /\ fatal(loc[t].op, loc[t].level)
                /\ Holder # t /\ sink' = sink)]_vars

\* Printf with level Fatal passed the gate, wrote its line and ended the
\* process while the other thread was still inside its own call.
C16_Witness ==
    /\ pc[1] = "exited" /\ loc[1].op = "Printf" /\ loc[1].level = LevelFatal
    /\ loc[1].nwrites = 1 /\ Len(sink[Stderr]) = 1
    /\ pc[2] = "printOut.Lock"

---------------------------------------------------------------------------
(* Properties of the timed specification *)

\* The digit a byte '0'..'9' stands for.
DigitValue(c) == CHOOSE d \in 0..9 : digit(d) = c

\* The time of day, in seconds, an uncolored line with a letter carries in
\* its bytes 3..10, HH:MM:SS.
Stamp(b) ==
    (DigitValue(b[3]) * 10 + DigitValue(b[4])) * 3600
        + (DigitValue(b[6]) * 10 + DigitValue(b[7])) * 60
        + DigitValue(b[9]) * 10 + DigitValue(b[10])

\* C18: with threads emitting on one logger and a clock that never goes
\* back, the lines the writer receives carry timestamps in non-decreasing
\* order.
C18_TimestampOrder ==
    \A i, j \in 1..Len(sink[Stderr]) :
        i < j => Stamp(sink[Stderr][i]) <= Stamp(sink[Stderr][j])

---------------------------------------------------------------------------
(* Properties of the shared-instance specification *)

\* The statements between l.Lock() and the deferred l.Unlock(), the Unlock
\* included: a thread at one of them has taken the mutex and not released it.
CriticalPcs ==
    {"printOut.reset", "printOut.buildHeader", "printOut.append", "printOut.Write",
     "printOut.Unlock",
     "SetPrefix.store", "SetPrefix.store2", "SetPrefix.Unlock",
     "SetFlags.store", "SetFlags.Unlock",
     "SetOutput.store", "SetOutput.store2", "SetOutput.Unlock",
     "GetPrefix.load", "GetPrefix.Unlock", "GetFlags.load", "GetFlags.Unlock",
     "GetOutput.load", "GetOutput.Unlock",
     "Clone.level", "Clone.prefix", "Clone.out", "Clone.flags", "Clone.New", "Clone.Unlock"}

\* The statements that read or write l.prefix, l.flags, l.out or l.buf.
AccessPcs ==
    {"printOut.reset", "printOut.buildHeader", "printOut.append", "printOut.Write",
     "SetPrefix.store", "SetPrefix.store2", "SetFlags.store",
     "SetOutput.store", "SetOutput.store2",
     "GetPrefix.load", "GetFlags.load", "GetOutput.load",
     "Clone.prefix", "Clone.out", "Clone.flags"}

\* Thread t's getter has read its result.
Got(t, op) == loc[t].op = op /\ pc[t] \in {"GetPrefix.Unlock", "GetFlags.Unlock",
                                            "GetOutput.Unlock", "done"}

\* C14: at most one thread is between Lock and Unlock of the instance; a
\* thread about to read or write prefix, flags, out or the buffer is the one
\* the mutex records as its holder, and the mutex is held by no one else;
\* what a getter returns is the constructor's value or the argument of a
\* setter call, never a half-stored value.
C14_MutualExclusion ==
    /\ Cardinality({t \in Threads : pc[t] \in CriticalPcs}) <= 1
    /\ \A t \in Threads : pc[t] \in AccessPcs => Holder = t
    /\ Holder # 0 => pc[Holder] \in CriticalPcs
    /\ \A t \in Threads :
          /\ Got(t, "GetPrefix") => loc[t].s \in PrefixInputs
          /\ Got(t, "GetFlags") => loc[t].flags \in FlagInputs
          /\ Got(t, "GetOutput") => loc[t].out \in Sinks

\* Thread 1 is between the two words of its store to l.prefix, which holds a
\* value no one stored, while thread 2, in GetPrefix, waits for the mutex.
C14_Witness ==
    /\ pc[1] = "SetPrefix.store2" /\ GetPrefix(heap, std) = TornString
    /\ pc[2] = "GetPrefix.Lock"

\* C15: the prefix, flags and writer Clone builds its result from are the
\* ones the source holds, all three, at the moment New is called, and none
\* is half-stored; the level is the one loaded from the source earlier in
\* the same call.
C15_CloneSnapshot ==
    [][\A t \in Threads :
          /\ (pc[t] = "Clone.level" /\ pc'[t] = "Clone.prefix") =>
                loc'[t].level = GetLevel(heap, loc[t].a)
          /\ (pc[t] = "Clone.New" /\ pc'[t] = "Clone.Unlock") =>
                LET c == loc'[t].ret
                IN /\ c \notin DOMAIN heap /\ c \in DOMAIN heap'
                   /\ <<GetPrefix(heap', c), GetFlags(heap', c), GetOutput(heap', c)>>
                        = <<GetPrefix(heap, loc[t].a), GetFlags(heap, loc[t].a),
                            GetOutput(heap, loc[t].a)>>
                   /\ GetPrefix(heap', c) # TornString /\ GetOutput(heap', c) # TornWriter
                   /\ GetLevel(heap', c) = loc[t].level]_vars

\* Thread 1 has built its clone, with the old prefix, and still holds the
\* mutex thread 2 waits for in SetPrefix.
C15_Witness ==
    /\ pc[1] = "Clone.Unlock" /\ GetPrefix(heap, loc[1].ret) = <<>>
    /\ pc[2] = "SetPrefix.Lock"

---------------------------------------------------------------------------
(* Properties of the fair specification *)

\* The l.Lock() statements.
LockPcs ==
    {"printOut.Lock", "SetPrefix.Lock", "SetFlags.Lock", "SetOutput.Lock",
     "GetPrefix.Lock", "GetFlags.Lock", "GetOutput.Lock", "Clone.Lock"}

\* How far a call has come: not made (0), before its Lock (1), between Lock
\* and Unlock (2), past its Unlock or over (3).
Phase(p) ==
    IF p = "idle" THEN 0
    ELSE IF p \in LockPcs \cup {"gate", "printOut"} THEN 1
    ELSE IF p \in CriticalPcs THEN 2
    ELSE 3

\* C20: under fair scheduling, with every Write returning, every call
\* returns or the process ends; a call takes the mutex only when it is free,
\* at its one Lock statement, and never again; it does not hold it once it is
\* past its Unlock (also when its Write was rejected); and the mutex is free
\* whenever no call is in progress.
C20_DeadlockFree ==
    /\ \A t \in Threads :
          (pc[t] # "idle") ~> (pc[t] \in {"done", "exited"} \/ exited)
    /\ [][\A t \in Threads :
            /\ Phase(pc'[t]) >= Phase(pc[t])
            /\ (Holder' = t /\ Holder # t) =>
                  (Holder = 0 /\ pc[t] \in LockPcs /\ Phase(pc'[t]) = 2)]_vars
    /\ [](\A t \in Threads : Phase(pc[t]) # 2 => Holder # t)
    /\ []((\A t \in Threads : pc[t] \in {"idle", "done"}) => Holder = 0)

\* Every thread has returned, one of them from a Print whose Write was
\* rejected, the writer being the one a SetOutput beside it stored, and the
\* mutex is free.
C20_Witness ==
    /\ \A t \in Threads : pc[t] = "done"
    /\ loc[1].op = "Print" /\ loc[1].e # "nil"
    /\ loc[2].op = "SetOutput"
    /\ Holder = 0

---------------------------------------------------------------------------
(* Properties of the failing-writer specification *)

\* Thread t's call made its Write and the writer rejected it.
Rejected(t) == AfterWrite(t) /\ loc[t].e # "nil"

\* C13: when the writer rejects the Write, the emit call has made that one
\* Write and no other, to no other writer; it returns, or ends the process
\* exactly when the level is fatal for its entry point; the mutex is released
\* once printOut is over; level, prefix, flags and writer stay what they
\* were; and a later call waiting for the mutex can take it.
C13_WriteFailureSwallowed ==
    /\ \A t \in Threads :
          Rejected(t) =>
             /\ loc[t].nwrites = 1
             /\ pc[t] \in {"printed", "done", "exited"} => Holder # t
             /\ pc[t] = "done" => ~fatal(loc[t].op, loc[t].level)
             /\ pc[t] = "exited" => (fatal(loc[t].op, loc[t].level) /\ exited)
    /\ Len(sink[Closed]) = Cardinality({t \in Threads : Rejected(t)})
    /\ \A w \in Sinks : sink[w] = <<>>
    /\ Config(heap, std) = <<LevelWarn, <<>>, 0, Closed>>
    /\ \A t \in Threads :
          (At(t, "printOut.Lock") /\ \A u \in Threads : pc[u] \in {"idle", "gate", "printOut",
                                         "printOut.Lock", "printed", "done", "exited"})
             => ENABLED PrintOutLock(t)

\* Every thread's call was rejected and has returned: the second call went
\* through the mutex and to the writer after the first one failed.
C13_Witness ==
    /\ \A t \in Threads : Rejected(t) /\ pc[t] = "done"
    /\ Len(sink[Closed]) = NThreads

---------------------------------------------------------------------------
(* Properties of the rendering specification *)

\* The number of newlines in b.
RECURSIVE Newlines(_)
Newlines(b) == IF b = <<>> THEN 0 ELSE (IF Head(b) = "\n" THEN 1 ELSE 0) + Newlines(Tail(b))

EndsWith(b, e) == Len(b) >= Len(e) /\ SubSeq(b, Len(b) - Len(e) + 1, Len(b)) = e

\* The bytes of the one Write of the last printOut, and its message body.
Written == last.w[1].b

Body == last.a[1].s

\* The body with the newline the logger owes it.
BodyLine == IF Body = <<>> \/ Body[Len(Body)] # "\n" THEN Body \o <<"\n">> ELSE Body

\* C10 as stated: the bytes written end with the body and its one guaranteed
\* newline, and the last byte written is a newline.
C10_LastByteIsNewline ==
    last.op = "printOut" =>
        /\ Len(last.w) = 1
        /\ EndsWith(Written, BodyLine)
        /\ Newlines(Written) = Newlines(BodyLine)
        /\ Written[Len(Written)] = "\n"

\* The bytes written without the ANSI reset that ends a colored line.
Uncolored(b) == IF EndsWith(b, colorReset) THEN SubSeq(b, 1, Len(b) - Len(colorReset)) ELSE b

\* The line is colored: ColorMode is set and the level is one of Fatal..Trace.
Colored ==
    /\ hasFlag(GetFlags(heap, std), FlagColorMode)
    /\ Le(LevelFatal, last.level) /\ Le(last.level, LevelTrace)

\* C10 amended: the line ends with the body and one guaranteed newline (added
\* when the body is empty or does not end with one, not added otherwise, the
\* body's own newlines kept); the newline is the last byte written unless the
\* line is colored, and then only the ANSI reset follows it.
C10_OneTrailingNewline ==
    last.op = "printOut" =>
        /\ Len(last.w) = 1
        /\ EndsWith(Uncolored(Written), BodyLine)
        /\ Newlines(Written) = Newlines(BodyLine)
        /\ IF Colored
           THEN EndsWith(Written, <<"\n">> \o colorReset)
           ELSE Written[Len(Written)] = "\n"

\* A colored line whose body already ended with a newline.
C10_Witness ==
    /\ last.op = "printOut" /\ Body # <<>> /\ Body[Len(Body)] = "\n"
    /\ EndsWith(Written, <<"\n">> \o colorReset)

---------------------------------------------------------------------------
(* Properties of the header specification *)

\* The letter of a level in Fatal..Trace.
LevelChar(level) ==
    CASE level = LevelFatal -> "F" [] level = LevelError -> "E" [] level = LevelWarn -> "W"
      [] level = LevelInfo -> "I" [] level = LevelDebug -> "D" [] level = LevelTrace -> "T"

\* n < 100 as exactly two decimal digits, zero-padded.
TwoDigits(n) == <<digit(n \div 10), digit(n % 10)>>

\* <LevelChar> '/' HH ':' MM ':' SS ' ' <prefix> ': ' for the last line.
PlainHeader ==
    <<LevelChar(last.level), "/">> \o TwoDigits(Clock(clock)[1]) \o <<":">>
        \o TwoDigits(Clock(clock)[2]) \o <<":">> \o TwoDigits(Clock(clock)[3])
        \o <<" ">> \o GetPrefix(heap, std) \o <<":", " ">>

\* C11: with ColorMode off and a level in Fatal..Trace, the bytes written are
\* exactly <LevelChar>/HH:MM:SS <prefix>: <body> and the trailing newline (the
\* body's own when it ends with one), HH, MM, SS two zero-padded digits each;
\* with an empty prefix the header is 13 bytes and the rest is the body; Info
\* at 14:05:09 with prefix APP and body hello gives I/14:05:09 APP: hello\n;
\* nothing of an earlier line is in the line, and the line is what the writer
\* received.
C11_PlainLineFormat ==
    (last.op = "printOut" /\ ~hasFlag(GetFlags(heap, std), FlagColorMode)
        /\ Le(LevelFatal, last.level) /\ Le(last.level, LevelTrace)) =>
        /\ Len(last.w) = 1
        /\ Written = PlainHeader \o BodyLine
        /\ GetPrefix(heap, std) = <<>> =>
              (Len(PlainHeader) = 13 /\ SubSeq(Written, 14, Len(Written)) = BodyLine)
        /\ (clock = StartTime /\ GetPrefix(heap, std) = <<"A", "P", "P">>
             /\ last.level = LevelInfo /\ Body = <<"h", "e", "l", "l", "o">>) =>
              Written = <<"I", "/", "1", "4", ":", "0", "5", ":", "0", "9", " ", "A", "P", "P",
                          ":", " ", "h", "e", "l", "l", "o", "\n">>
        /\ sink[GetOutput(heap, std)][Len(sink[GetOutput(heap, std)])] = Written

\* A line shorter than the line before it, at a time whose hour, minute and
\* second each need their zero.
C11_Witness ==
    /\ last.op = "printOut" /\ Len(sink[Stderr]) = 2
    /\ Len(sink[Stderr][2]) < Len(sink[Stderr][1])
    /\ Clock(clock)[1] < 10 /\ Clock(clock)[2] < 10 /\ Clock(clock)[3] < 10
    /\ GetPrefix(heap, std) = <<>>

\* The letter of the header: none for Quiet and for a level without one.
Letter(level) ==
    IF Le(LevelFatal, level) /\ Le(level, LevelTrace) THEN <<LevelChar(level)>> ELSE <<>>

\* The line without color: letter, '/', HH:MM:SS, ' ', prefix, ': ', body,
\* newline.
PlainLine ==
    Letter(last.level) \o <<"/">> \o TwoDigits(Clock(clock)[1]) \o <<":">>
        \o TwoDigits(Clock(clock)[2]) \o <<":">> \o TwoDigits(Clock(clock)[3])
        \o <<" ">> \o GetPrefix(heap, std) \o <<":", " ">> \o BodyLine

\* f has the bit of value 1, the ColorMode bit.
ColorModeSet(f) == f % 2 = 1

\* C17: the bytes written are the level's color start, the plain line and
\* the ANSI reset (after the trailing newline) exactly when the ColorMode bit
\* of the flags is set and the level is one of Fatal..Trace; otherwise they
\* are the plain line, with no escape sequence at its start or end.
C17_ColorWrapping ==
    last.op = "printOut" =>
        IF ColorModeSet(GetFlags(heap, std))
              /\ Le(LevelFatal, last.level) /\ Le(last.level, LevelTrace)
        THEN /\ Written = levelColors[last.level] \o PlainLine \o colorReset
             /\ EndsWith(Written, <<"\n", ESC, "[", "0", "m">>)
             /\ Written[1] = ESC
        ELSE /\ Written = PlainLine
             /\ Written[1] # ESC /\ ~EndsWith(Written, colorReset)

\* ColorMode set together with another bit, level Trace: a colored line.
C17_Witness ==
    /\ last.op = "printOut" /\ GetFlags(heap, std) = 2 + FlagColorMode
    /\ last.level = LevelTrace
    /\ Written[1] = ESC /\ EndsWith(Written, colorReset)

====
